---- MODULE Spec2Model ----
(***************************************************************************)
(* Program state machine of the fitness trainer bot: the per-user 28-day   *)
(* programme kept in the process-wide dict user_data and in the files      *)
(* user_data/user_<id>.json, driven by the text-button handlers of         *)
(* handlers/text.py, handlers/start.py and handlers/rag.py.                *)
(*                                                                         *)
(* Python dicts are modelled as functions whose DOMAIN is the key set, so  *)
(* "k in d", d.get(k, default), d[k] = v, d.update(e) and del d[k] are     *)
(* translated literally.  Every handler runs to completion without         *)
(* yielding before its last state change (the only awaits before it are    *)
(* on coroutines that never suspend), so a handler is one atomic action.   *)
(* SpecConcurrent adds two completion handlers of one user that are         *)
(* dispatched together and suspend at their awaited replies.               *)
(*                                                                         *)
(* The second part is the RAG system of data/fitness_rag.py: the three     *)
(* ChromaDB collections, the plan cache, load_data taken step by step and  *)
(* get_workout_plan.  SpecRag runs queries only between loads, as the bot  *)
(* does; SpecReindex lets a reader run between the steps of a load.        *)
(*                                                                         *)
(* The third part is the document ingestion of handlers/document_upload.py:*)
(* chunk_text taken one loop iteration at a time (SpecChunk, SpecChunkFair)*)
(* and index_document from load_document to the last add_document          *)
(* (SpecIngest).  SpecTwoUsers interleaves the programme events of two     *)
(* users.                                                                  *)
(***************************************************************************)
EXTENDS Integers, Sequences, FiniteSets, TLC

(* ------------------------------ bounds --------------------------------- *)

\* Completion records one user may accumulate before the model stops
\* accepting further completion events for that user.
MaxCompleted == 30

\* Completion records a user collects in the runs with two users.
MaxDaysTwoUsers == 2

\* Longest text handed to chunk_text.
MaxTextLen == 5

\* Chunks one chunk_text call may collect before the model stops following
\* that call.
MaxChunks == 6

\* Telegram user ids known to the model.
Users == {"u1", "u2"}

(* ------------------------- program constants --------------------------- *)

\* handlers/rag.py:167  "if workout_day < 28"
PROGRAM_DAYS == 28

\* handlers/rag.py:171  "if workout_day % 7 == 0"
DAYS_PER_WEEK == 7

(* --------------------------- dict helpers ------------------------------ *)

EmptyDict == [k \in {} |-> 0]

\* d[k] = v
Put(d, k, v) == [x \in (DOMAIN d) \cup {k} |-> IF x = k THEN v ELSE d[x]]

\* del d[k]
Del(d, k) == [x \in (DOMAIN d) \ {k} |-> d[x]]

\* d.get(k, default)
Get(d, k, default) == IF k \in DOMAIN d THEN d[k] ELSE default

\* d.update(e)
Update(d, e) == [x \in (DOMAIN d) \cup (DOMAIN e) |-> IF x \in DOMAIN e THEN e[x] ELSE d[x]]

(* ----------------------------- state ----------------------------------- *)

VARIABLES
    user_data,          \* services.router.user_data : user id -> profile dict
    files,              \* user_data/user_<id>.json  : user id -> saved dict
    user_modes,         \* services.router.user_modes : user id -> reply mode
    reply,              \* what the last handler sent back (and logged)
    completion_events,  \* history: completion events handled per user since
                        \* the user's record was last (re)initialised
    senders,            \* the users that talk to the bot in this run
    tasks,              \* handler coroutines of updates dispatched
                        \* concurrently (empty when updates are handled
                        \* one after the other)
    collections,        \* the persistent ChromaDB store: collection name ->
                        \* (record id -> document, metadata, embedding)
    plans_data_cache,   \* FitnessRAGSystem._plans_data_cache : key -> plan
    documents,          \* FitnessRAGSystem.documents
    load_frame,         \* the load_data call in progress: position and locals
    load_log,           \* history: what the last load_data call read, what it
                        \* found on entry and how it ended
    rag_reply,          \* what the last query of the RAG system returned
    chunk_call,         \* the chunk_text call in progress: arguments, locals
                        \* and position
    index_call          \* the index_document call in progress: its file, its
                        \* position and what it returned

bot_vars == <<user_data, files, user_modes, reply, completion_events, senders, tasks>>

rag_vars == <<collections, plans_data_cache, documents, load_frame, load_log, rag_reply>>

vars == <<user_data, files, user_modes, reply, completion_events, senders, tasks,
          collections, plans_data_cache, documents, load_frame, load_log, rag_reply,
          chunk_call, index_call>>

doc_vars == <<chunk_call, index_call>>

(* ------------------------- profile parsing ----------------------------- *)

RequiredFields == <<"age", "gender", "height", "weight", "activity_level", "goal">>

IntFields == {"age", "height", "weight", "activity_level"}

\* Python truthiness of a profile field value: 0 and "" are falsy.
Truthy(f, v) == IF f \in IntFields THEN v # 0 ELSE v # ""

\* What parse_profile_with_llm may hand back for one message: a dict with
\* some of the profile keys (possibly none, possibly with empty values).
ProfileInputs ==
    { EmptyDict,
      [age |-> 25, gender |-> "male", height |-> 180],
      [weight |-> 80, activity_level |-> 3, goal |-> "mass"],
      [weight |-> 80, activity_level |-> 3, goal |-> ""],
      [age |-> 50, gender |-> "female", height |-> 165, weight |-> 60,
       activity_level |-> 2, goal |-> "fit", limitations |-> "none"] }

\* Variant of missing_fields with a slip: an empty value counts as given.
missing_fields_keys_only(fields) ==
    SelectSeq(RequiredFields, LAMBDA f : f \notin DOMAIN fields)

\* missing_fields = [f for f in required_fields if f not in fields or not fields.get(f)]
missing_fields(fields) ==
    SelectSeq(RequiredFields,
              LAMBDA f : f \notin DOMAIN fields \/ ~Truthy(f, fields[f]))

age_group_of(age) ==
    IF age < 18 THEN "under_18"
    ELSE IF age < 30 THEN "18-30"
    ELSE IF age < 45 THEN "30-45"
    ELSE IF age < 60 THEN "45-60"
    ELSE "60+"

(* ------------------------- persistence --------------------------------- *)

\* Variant of save_user_data with a slip: a file that exists is not
\* rewritten.
save_user_data_once(fs, user_id, data) ==
    IF user_id \in DOMAIN fs THEN fs ELSE Put(fs, user_id, data)

\* save_user_data(user_id, data): json.dump of the whole dict into the
\* user's file, replacing what was there.  The file is a snapshot: later
\* mutation of the in-memory dict does not reach it.
save_user_data(fs, user_id, data) == Put(fs, user_id, data)

(* ------------------------- plan generation ----------------------------- *)

\* router.generate_workout(user_id, week, day, previous_workout) -> text.
\* The rendered text is opaque; it is identified by the week/day it is for.
generate_workout(user_id, week, day, previous_workout) ==
    [plan_week |-> week, plan_day |-> day]

(* --------------------------- corpus files ------------------------------ *)

\* data/fitness_rag_data/warmup_routine.json, and a revised edition of it
WarmupA ==
    [name |-> "warmup", description |-> "five minutes", total_duration |-> 300,
     exercises |-> <<[name |-> "jog"], [name |-> "arm_circles"]>>]

WarmupB ==
    [name |-> "warmup", description |-> "four minutes", total_duration |-> 240,
     exercises |-> <<[name |-> "jog"]>>]

\* exercises_library.json: the value of its "exercises" member
PushUpA ==
    [id |-> "ex_001", name |-> "push_up", description |-> "floor push-up",
     primary_muscles |-> <<"chest", "triceps">>, equipment |-> <<>>,
     difficulty |-> 2]

PushUpB ==
    [id |-> "ex_001", name |-> "push_up", description |-> "push-up on knees",
     primary_muscles |-> <<"chest">>, equipment |-> <<"mat">>,
     difficulty |-> 1, ascii_schematic |-> <<"_o_">>]

Squat ==
    [id |-> "ex_002", name |-> "squat", description |-> "body-weight squat",
     primary_muscles |-> <<"legs">>, equipment |-> <<>>, difficulty |-> 2]

ExercisesA == <<PushUpA>>

ExercisesB == <<PushUpB, Squat>>

\* workout_plans_full.json: the value of its "plans" member, as the sequence
\* of its (key, plan) members in file order
PlanW1D1A ==
    [name |-> "chest day", category |-> [gender |-> "male", age_group |-> "18-30"],
     week |-> 1, day |-> 1, target_muscles |-> <<"chest">>, intensity_level |-> 1,
     exercises |-> <<[name |-> "push_up", sets |-> 3]>>,
     warmup |-> <<"jog">>, cooldown |-> <<"stretch">>]

PlanW1D1B ==
    [name |-> "chest and arms", category |-> [gender |-> "male", age_group |-> "18-30"],
     week |-> 1, day |-> 1, target_muscles |-> <<"chest", "triceps">>,
     intensity_level |-> 2,
     exercises |-> <<[name |-> "push_up", sets |-> 4], [name |-> "dips", sets |-> 2]>>,
     warmup |-> <<"jog">>, cooldown |-> <<"stretch">>]

PlanW1D2A ==
    [name |-> "leg day", category |-> [gender |-> "male", age_group |-> "18-30"],
     week |-> 1, day |-> 2, target_muscles |-> <<"legs">>, intensity_level |-> 1,
     exercises |-> <<[name |-> "squat", sets |-> 3]>>,
     warmup |-> <<"jog">>, cooldown |-> <<"stretch">>]

PlansA == << <<"male_18_30_week1_day1", PlanW1D1A>> >>

PlansB == << <<"male_18_30_week1_day1", PlanW1D1B>> >>

PlansC == << <<"male_18_30_week1_day1", PlanW1D1A>>,
             <<"male_18_30_week1_day2", PlanW1D2A>> >>

\* A file of the data directory: absent, present but not valid JSON, or
\* present with its parsed content.
Absent == [state |-> "absent"]

Malformed == [state |-> "malformed"]

File(content) == [state |-> "ok", data |-> content]

DataDir(warmup, exercises, plans) ==
    [exists |-> TRUE, warmup_routine |-> warmup, exercises_library |-> exercises,
     workout_plans_full |-> plans]

NoDir ==
    [exists |-> FALSE, warmup_routine |-> Absent, exercises_library |-> Absent,
     workout_plans_full |-> Absent]

\* The data directories load_data is run on: every subset of the three
\* files, revised editions of the files, a file that cannot be parsed, and a
\* path that does not exist.
DataDirs ==
    { DataDir(w, e, p) : w \in {Absent, File(WarmupA)},
                         e \in {Absent, File(ExercisesA)},
                         p \in {Absent, File(PlansA)} }
    \cup { DataDir(File(WarmupB), File(ExercisesB), File(PlansB)),
           DataDir(File(WarmupA), File(ExercisesA), File(PlansC)),
           DataDir(Malformed, File(ExercisesA), File(PlansA)),
           DataDir(File(WarmupA), Malformed, File(PlansA)),
           DataDir(File(WarmupA), File(ExercisesA), Malformed),
           NoDir }

(* --------------------------- document store ---------------------------- *)

\* json.dumps(value) is a string, not the value; json.loads undoes it.
json_dumps(value) == [json |-> value]

json_loads(text) == text.json

\* SentenceTransformer.encode(text): the vector is opaque, a function of the
\* text only.
encode(text) == [embedding_of |-> text]

\* The embedding function ChromaDB applies itself when none is given.
default_embedding(text) == [default_embedding_of |-> text]

\* chromadb Collection.add(ids, documents, metadatas, embeddings) on a
\* persistent client: a record whose id the collection already holds is
\* ignored, the stored record is kept; the other records are inserted.
collection_add(collection, batch) ==
    [id \in (DOMAIN collection) \cup {batch[i].id : i \in DOMAIN batch} |->
        IF id \in DOMAIN collection
        THEN collection[id]
        ELSE LET i == CHOOSE j \in DOMAIN batch : batch[j].id = id
             IN  [document |-> batch[i].document, metadata |-> batch[i].metadata,
                  embedding |-> batch[i].embedding]]

\* chromadb Collection.get(ids=[id]): the metadatas of the records found
collection_get(collection, id) ==
    IF id \in DOMAIN collection THEN <<collection[id].metadata>> ELSE <<>>

(* ----------------------------- Init ------------------------------------ *)

NoReply == [user |-> "-", handler |-> "-", msg |-> "-"]

InitCommon ==
    /\ user_data = EmptyDict
    /\ files = EmptyDict
    /\ user_modes = EmptyDict
    /\ reply = NoReply
    /\ completion_events = [u \in Users |-> 0]

\* data/fitness_rag.py FitnessRAGSystem.__init__, lines 17-24, on an empty
\* persist directory: the three collections exist and are empty, nothing is
\* cached, no load_data call has been made.
IdleFrame == [pc |-> "idle", data_dir |-> NoDir, todo |-> <<>>, batch |-> <<>>]

NoLoad ==
    [outcome |-> "none", data_dir |-> NoDir, reload |-> FALSE,
     cache_before |-> EmptyDict,
     collections_before |-> [warmup |-> EmptyDict, exercises |-> EmptyDict,
                             workout_plans |-> EmptyDict]]

NoQuery == [op |-> "-"]

InitRag ==
    /\ collections = [warmup |-> EmptyDict, exercises |-> EmptyDict,
                      workout_plans |-> EmptyDict]
    /\ plans_data_cache = EmptyDict
    /\ documents = <<>>
    /\ load_frame = IdleFrame
    /\ load_log = NoLoad
    /\ rag_reply = NoQuery

None == [none |-> TRUE]

\* No index_document call has been made.
NoIndexCall == [pc |-> "idle", file |-> None, prepared |-> None, result |-> None]

\* No chunk_text call has been made.
NoChunkCall ==
    [pc |-> "idle", text |-> <<>>, chunk_size |-> 0, overlap |-> 0, start |-> 0,
     chunks |-> <<>>]

Init == InitCommon /\ senders = {"u1"} /\ tasks = <<>> /\ InitRag
        /\ chunk_call = NoChunkCall
        /\ index_call = NoIndexCall

\* Two users write to the bot.
InitTwoUsers == InitCommon /\ senders = Users /\ tasks = <<>> /\ InitRag
                /\ chunk_call = NoChunkCall
                /\ index_call = NoIndexCall

(* ---------------------------- handlers --------------------------------- *)

\* Variant of new_profile with a slip: the week starts at 1 while the day
\* starts at 0.
new_profile_week1 ==
    [profile_state |-> "collecting",
     profile_complete |-> FALSE,
     workout_day |-> 0,
     current_week |-> 1,
     workouts_completed |-> <<>>,
     fields |-> EmptyDict]

\* handlers/start.py poehali_callback (buttons "Poehali!" and "Zapolnit zanovo")
new_profile ==
    [profile_state |-> "collecting",
     profile_complete |-> FALSE,
     workout_day |-> 0,
     current_week |-> 0,
     workouts_completed |-> <<>>,
     fields |-> EmptyDict]

poehali_callback(user_id) ==
    /\ user_data' = Put(user_data, user_id, new_profile)
    /\ reply' = [user |-> user_id, handler |-> "poehali_callback", msg |-> "profile_prompt"]
    /\ completion_events' = [completion_events EXCEPT ![user_id] = 0]
    /\ UNCHANGED <<files, user_modes, senders>>

\* handlers/text.py handle_text, lines 124-133: free text goes to
\* handle_profile_input while the profile is being collected.
routes_to_profile_input(user_id) ==
    \/ Get(Get(user_data, user_id, EmptyDict), "profile_state", "None") = "collecting"
    \/ /\ user_id \in DOMAIN user_data
       /\ ~Get(user_data[user_id], "profile_complete", FALSE)

\* handlers/text.py handle_profile_input, lines 162-174: merge the parsed
\* data into the fields dict (which is the dict stored under "fields").
merge_fields(profile, profile_data) ==
    LET p1 == IF "fields" \notin DOMAIN profile
              THEN Put(Put(profile, "fields", EmptyDict), "profile_state", "collecting")
              ELSE profile
        fields == IF profile_data # EmptyDict
                  THEN Update(p1["fields"], profile_data)
                  ELSE p1["fields"]
    IN  Put(p1, "fields", fields)

\* handlers/text.py handle_profile_input, lines 190-212: all required
\* fields are there, the programme starts.
activate_profile(profile) ==
    LET fields == profile["fields"]
        p1 == Update(profile, fields)
        p2 == Put(Put(p1, "profile_complete", TRUE), "profile_state", "complete")
        p3 == Put(p2, "age_group", age_group_of(Get(fields, "age", 25)))
        p4 == Put(Put(p3, "workout_day", 1), "current_week", 1)
    IN  Put(Put(p4, "in_workout", FALSE), "workouts_completed", <<>>)

handle_profile_input(user_id, profile_data) ==
    /\ routes_to_profile_input(user_id)
    /\ LET merged == merge_fields(user_data[user_id], profile_data)
       IN  IF missing_fields(merged["fields"]) # <<>>
           THEN /\ user_data' = Put(user_data, user_id, merged)
                /\ reply' = [user |-> user_id, handler |-> "handle_profile_input",
                             msg |-> "missing_fields"]
                /\ UNCHANGED <<files, completion_events>>
           ELSE LET profile == activate_profile(merged)
                IN  /\ user_data' = Put(user_data, user_id, profile)
                    /\ files' = save_user_data(files, user_id, profile)
                    /\ reply' = [user |-> user_id, handler |-> "handle_profile_input",
                                 msg |-> "profile_filled"]
                    /\ completion_events' = [completion_events EXCEPT ![user_id] = 0]
    /\ UNCHANGED <<user_modes, senders>>

\* Variant of previous_workout_of with a slip: the continuity context is
\* never passed on.
previous_workout_dropped(profile) == EmptyDict

\* handlers/rag.py handle_get_workout, line 97
previous_workout_of(profile) == Get(profile, "last_workout", EmptyDict)

\* Variant of workout_issued with a slip: the workout is marked as running
\* but not recorded as the last one.
workout_issued_unrecorded(profile, current_week, workout_day, workout_text) ==
    Put(profile, "in_workout", TRUE)

\* handlers/rag.py handle_get_workout, lines 107-113
workout_issued(profile, current_week, workout_day, workout_text) ==
    Put(Put(profile, "last_workout",
            [week |-> current_week, day |-> workout_day, text |-> workout_text]),
        "in_workout", TRUE)

\* handlers/rag.py handle_get_workout, line 92
program_finished(workout_day) == workout_day > PROGRAM_DAYS

handle_get_workout(user_id) ==
    /\ IF user_id \notin DOMAIN user_data
       THEN /\ reply' = [user |-> user_id, handler |-> "handle_get_workout",
                         msg |-> "profile_not_filled"]
            /\ UNCHANGED <<user_data, files>>
       ELSE LET profile == user_data[user_id]
                workout_day == Get(profile, "workout_day", 1)
                current_week == Get(profile, "current_week", 1)
            IN  IF program_finished(workout_day)
                THEN /\ reply' = [user |-> user_id, handler |-> "handle_get_workout",
                                  msg |-> "completion_message"]
                     /\ UNCHANGED <<user_data, files>>
                ELSE LET previous_workout == previous_workout_of(profile)
                         workout_text == generate_workout(user_id, current_week,
                                                          workout_day, previous_workout)
                         updated == workout_issued(profile, current_week,
                                                   workout_day, workout_text)
                     IN  /\ user_data' = Put(user_data, user_id, updated)
                         /\ files' = save_user_data(files, user_id, updated)
                         /\ reply' = [user |-> user_id, handler |-> "handle_get_workout",
                                      msg |-> "workout", week |-> current_week,
                                      day |-> workout_day,
                                      previous_workout |-> previous_workout]
    /\ UNCHANGED <<user_modes, completion_events, senders>>

\* handlers/rag.py handle_workout_complete, lines 158-162 (the timestamp
\* str(datetime.now()) is opaque)
completed_record(current_week, workout_day) ==
    [week |-> current_week, day |-> workout_day, completed_at |-> "now"]

\* Variants of next_day with a slip: the day of the week instead of the day
\* of the programme, and no advance at all.
next_day_restart(workout_day) ==
    IF workout_day % DAYS_PER_WEEK = 0 THEN 1 ELSE workout_day + 1

next_day_stuck(workout_day) == workout_day

\* handlers/rag.py handle_workout_complete, line 168
next_day(workout_day) == workout_day + 1

\* Variant of next_week with a slip: the week is bumped one day early.
next_week_early(current_week, workout_day) ==
    IF (workout_day + 1) % DAYS_PER_WEEK = 0 THEN current_week + 1 ELSE current_week

\* handlers/rag.py handle_workout_complete, lines 171-172
next_week(current_week, workout_day) ==
    IF workout_day % DAYS_PER_WEEK = 0 THEN current_week + 1 ELSE current_week

\* Variant of may_advance with a slip: the last day of the programme still
\* advances the counter.
may_advance_late(workout_day) == workout_day <= PROGRAM_DAYS

\* handlers/rag.py handle_workout_complete, line 167
may_advance(workout_day) == workout_day < PROGRAM_DAYS

handle_workout_complete(user_id) ==
    /\ IF user_id \notin DOMAIN user_data
       THEN /\ reply' = [user |-> user_id, handler |-> "handle_workout_complete",
                         msg |-> "profile_not_filled"]
            /\ UNCHANGED <<user_data, files, completion_events>>
       ELSE LET profile == user_data[user_id]
                workout_day == Get(profile, "workout_day", 1)
                current_week == Get(profile, "current_week", 1)
                history == Get(profile, "workouts_completed", <<>>)
                p1 == Put(profile, "workouts_completed",
                          Append(history, completed_record(current_week, workout_day)))
                p2 == Put(p1, "in_workout", FALSE)
            IN  /\ Len(history) < MaxCompleted
                /\ completion_events' =
                       [completion_events EXCEPT ![user_id] = @ + 1]
                /\ IF may_advance(workout_day)
                   THEN LET p3 == Put(Put(p2, "workout_day", next_day(workout_day)),
                                      "current_week", next_week(current_week, workout_day))
                        IN  /\ user_data' = Put(user_data, user_id, p3)
                            /\ files' = save_user_data(files, user_id, p3)
                            /\ reply' = [user |-> user_id,
                                         handler |-> "handle_workout_complete",
                                         msg |-> "workout_done",
                                         week |-> current_week, day |-> workout_day]
                   ELSE /\ user_data' = Put(user_data, user_id, p2)
                        /\ reply' = [user |-> user_id,
                                     handler |-> "handle_workout_complete",
                                     msg |-> "completion_message"]
                        /\ UNCHANGED files
    /\ UNCHANGED <<user_modes, senders>>

\* handlers/start.py start (/start): only the reply mode is touched
start(user_id) ==
    /\ user_modes' = Put(user_modes, user_id, "text")
    /\ reply' = [user |-> user_id, handler |-> "start", msg |-> "welcome"]
    /\ UNCHANGED <<user_data, files, completion_events, senders>>

\* Arguments of /mode tried by the model: a valid mode and an unknown one.
ModeArgs == {"rag", "dance"}

ValidModes == {"text", "voice", "image", "rag"}

\* handlers/start.py mode_command (/mode <new_mode>)
mode_command(user_id, new_mode) ==
    /\ IF new_mode \notin ValidModes
       THEN /\ reply' = [user |-> user_id, handler |-> "mode_command",
                         msg |-> "unknown_mode"]
            /\ UNCHANGED user_modes
       ELSE /\ user_modes' = Put(user_modes, user_id, new_mode)
            /\ reply' = [user |-> user_id, handler |-> "mode_command",
                         msg |-> "mode_switched"]
    /\ UNCHANGED <<user_data, files, completion_events, senders>>

\* Variant of remove_file with a slip: the file is left on disk.
remove_file_kept(fs, user_id) == fs

\* handlers/start.py reset_command, lines 158-169
remove_file(fs, user_id) == IF user_id \in DOMAIN fs THEN Del(fs, user_id) ELSE fs

\* Variant of forget_user with a slip: the whole dict is cleared.
forget_everyone(ud, user_id) == EmptyDict

forget_user(ud, user_id) == IF user_id \in DOMAIN ud THEN Del(ud, user_id) ELSE ud

reset_mode(um, user_id) == IF user_id \in DOMAIN um THEN Put(um, user_id, "text") ELSE um

reset_command(user_id) ==
    /\ files' = remove_file(files, user_id)
    /\ user_data' = forget_user(user_data, user_id)
    /\ user_modes' = reset_mode(user_modes, user_id)
    /\ reply' = [user |-> user_id, handler |-> "reset_command", msg |-> "cleared",
                 file_removed |-> (user_id \in DOMAIN files)]
    /\ completion_events' = [completion_events EXCEPT ![user_id] = 0]
    /\ UNCHANGED senders

(* --------------------- concurrently handled updates -------------------- *)

\* A handler is a coroutine: it runs without interruption up to its next
\* await and can be suspended only there.  handle_workout_complete reads the
\* record, changes it and saves it before its first await, which is the
\* reply (rag.py:142-198).

\* Two completion updates of one user are dispatched at the same time.  The
\* task keeps the day and the history length seen at dispatch.
dispatch_completions(user_id) ==
    /\ tasks = <<>>
    /\ user_id \in DOMAIN user_data
    /\ LET task == [user |-> user_id, pc |-> "dispatched",
                    day_at_dispatch |-> user_data[user_id]["workout_day"],
                    len_at_dispatch |-> Len(user_data[user_id]["workouts_completed"]),
                    msg |-> "-", week |-> 0, day |-> 0]
       IN  tasks' = <<task, task>>
    /\ UNCHANGED <<user_data, files, user_modes, reply, completion_events, senders>>

\* handlers/rag.py handle_workout_complete, lines 144-174: the coroutine of
\* task t runs from its start to the await of its reply.
complete_until_reply(t) ==
    /\ t \in DOMAIN tasks
    /\ tasks[t].pc = "dispatched"
    /\ LET user_id == tasks[t].user
       IN  IF user_id \notin DOMAIN user_data
           THEN /\ tasks' = [tasks EXCEPT ![t].pc = "awaits_reply",
                                          ![t].msg = "profile_not_filled"]
                /\ UNCHANGED <<user_data, files, completion_events>>
           ELSE LET profile == user_data[user_id]
                    workout_day == Get(profile, "workout_day", 1)
                    current_week == Get(profile, "current_week", 1)
                    history == Get(profile, "workouts_completed", <<>>)
                    p1 == Put(profile, "workouts_completed",
                              Append(history, completed_record(current_week, workout_day)))
                    p2 == Put(p1, "in_workout", FALSE)
                IN  /\ Len(history) < MaxCompleted
                    /\ completion_events' =
                           [completion_events EXCEPT ![user_id] = @ + 1]
                    /\ IF may_advance(workout_day)
                       THEN LET p3 == Put(Put(p2, "workout_day", next_day(workout_day)),
                                          "current_week",
                                          next_week(current_week, workout_day))
                            IN  /\ user_data' = Put(user_data, user_id, p3)
                                /\ files' = save_user_data(files, user_id, p3)
                                /\ tasks' = [tasks EXCEPT ![t].pc = "awaits_reply",
                                                          ![t].msg = "workout_done",
                                                          ![t].week = current_week,
                                                          ![t].day = workout_day]
                       ELSE /\ user_data' = Put(user_data, user_id, p2)
                            /\ tasks' = [tasks EXCEPT ![t].pc = "awaits_reply",
                                                      ![t].msg = "completion_message"]
                            /\ UNCHANGED files
    /\ UNCHANGED <<user_modes, reply, senders>>

\* handlers/rag.py handle_workout_complete, lines 146, 179-198: the awaited
\* reply of task t is sent and the coroutine ends.
complete_reply(t) ==
    /\ t \in DOMAIN tasks
    /\ tasks[t].pc = "awaits_reply"
    /\ reply' = IF tasks[t].msg = "workout_done"
                THEN [user |-> tasks[t].user, handler |-> "handle_workout_complete",
                      msg |-> "workout_done",
                      week |-> tasks[t].week, day |-> tasks[t].day]
                ELSE [user |-> tasks[t].user, handler |-> "handle_workout_complete",
                      msg |-> tasks[t].msg]
    /\ tasks' = [tasks EXCEPT ![t].pc = "finished"]
    /\ UNCHANGED <<user_data, files, user_modes, completion_events, senders>>

\* Both coroutines have ended; the tasks are dropped.
tasks_finished ==
    /\ tasks # <<>>
    /\ \A t \in DOMAIN tasks : tasks[t].pc = "finished"
    /\ tasks' = <<>>
    /\ UNCHANGED <<user_data, files, user_modes, reply, completion_events, senders>>

(* ----------------------------- corpus load ----------------------------- *)

\* data/fitness_rag.py load_data, lines 62-67, 91-97, 141-148: the text that
\* is stored and embedded, identified by the values it is formatted from
warmup_text(warmup) ==
    [text_of |-> "warmup", name |-> warmup.name, description |-> warmup.description,
     total_duration |-> warmup.total_duration,
     exercises |-> [i \in DOMAIN warmup.exercises |-> warmup.exercises[i].name]]

exercise_text(exercise) ==
    [text_of |-> "exercise", name |-> exercise.name,
     description |-> exercise.description,
     primary_muscles |-> exercise.primary_muscles,
     equipment |-> exercise.equipment, difficulty |-> exercise.difficulty]

plan_text(plan) ==
    [text_of |-> "plan", name |-> plan.name, gender |-> plan.category.gender,
     age_group |-> plan.category.age_group, week |-> plan.week, day |-> plan.day,
     target_muscles |-> plan.target_muscles,
     intensity_level |-> plan.intensity_level,
     exercises |-> [i \in DOMAIN plan.exercises |-> plan.exercises[i].name]]

\* load_data, lines 99-106
exercise_metadata(exercise) ==
    [id |-> exercise.id, name |-> exercise.name,
     muscles |-> json_dumps(exercise.primary_muscles),
     equipment |-> json_dumps(exercise.equipment),
     difficulty |-> exercise.difficulty,
     ascii |-> json_dumps(Get(exercise, "ascii_schematic", <<>>))]

\* Variant of plan_metadata with a slip: the exercise list is put into the
\* metadata as well.
plan_metadata_full(plan_key, plan) ==
    [key |-> plan_key, gender |-> plan.category.gender,
     age_group |-> plan.category.age_group, week |-> plan.week, day |-> plan.day,
     muscles |-> json_dumps(plan.target_muscles),
     intensity_level |-> plan.intensity_level,
     exercises |-> json_dumps(plan.exercises)]

\* load_data, lines 150-158
plan_metadata(plan_key, plan) ==
    [key |-> plan_key, gender |-> plan.category.gender,
     age_group |-> plan.category.age_group, week |-> plan.week, day |-> plan.day,
     muscles |-> json_dumps(plan.target_muscles),
     intensity_level |-> plan.intensity_level]

\* load_data, lines 69-73
warmup_batch(warmup) ==
    <<[id |-> "warmup_001", document |-> warmup_text(warmup),
       metadata |-> [type |-> "warmup", duration |-> warmup.total_duration],
       embedding |-> default_embedding(warmup_text(warmup))]>>

\* load_data, lines 90-117
exercise_batch(exercises) ==
    [i \in DOMAIN exercises |->
        [id |-> exercises[i].id, document |-> exercise_text(exercises[i]),
         metadata |-> exercise_metadata(exercises[i]),
         embedding |-> encode(exercise_text(exercises[i]))]]

\* An exception leaves load_data: nothing in load_data catches it.
load_raises ==
    /\ load_frame' = IdleFrame
    /\ load_log' = [load_log EXCEPT !.outcome = "raised"]

\* load_data returns after its last step.
load_returns ==
    /\ load_frame' = IdleFrame
    /\ load_log' = [load_log EXCEPT !.outcome = "loaded"]

load_goes_to(pc) == load_frame' = [load_frame EXCEPT !.pc = pc]

\* load_data, lines 47-54: entry of a call on the running instance
load_data(data_dir) ==
    /\ load_frame.pc = "idle"
    /\ load_log' = [outcome |-> IF data_dir.exists THEN "running" ELSE "no_dir",
                    data_dir |-> data_dir, reload |-> load_log.outcome # "none",
                    cache_before |-> plans_data_cache,
                    collections_before |-> collections]
    /\ IF data_dir.exists
       THEN /\ documents' = <<>>
            /\ load_frame' = [IdleFrame EXCEPT !.pc = "warmup", !.data_dir = data_dir]
       ELSE UNCHANGED <<documents, load_frame>>
    /\ UNCHANGED <<collections, plans_data_cache, rag_reply>>

\* FitnessRAGSystem.__init__, lines 8-27: a new instance on the same persist
\* directory (the store is kept), which then calls load_data
init_instance(data_dir) ==
    /\ load_frame.pc = "idle"
    /\ plans_data_cache' = EmptyDict
    /\ documents' = <<>>
    /\ load_log' = [outcome |-> IF data_dir.exists THEN "running" ELSE "no_dir",
                    data_dir |-> data_dir, reload |-> FALSE,
                    cache_before |-> EmptyDict,
                    collections_before |-> collections]
    /\ load_frame' = IF data_dir.exists
                     THEN [IdleFrame EXCEPT !.pc = "warmup", !.data_dir = data_dir]
                     ELSE IdleFrame
    /\ UNCHANGED <<collections, rag_reply>>

\* load_data, lines 56-78
load_warmup ==
    /\ load_frame.pc = "warmup"
    /\ LET file == load_frame.data_dir.warmup_routine
       IN  CASE file.state = "absent" ->
                  /\ load_goes_to("exercises")
                  /\ UNCHANGED <<collections, documents, load_log>>
             [] file.state = "malformed" ->
                  /\ load_raises
                  /\ UNCHANGED <<collections, documents>>
             [] file.state = "ok" ->
                  /\ collections' = [collections EXCEPT !.warmup =
                                        collection_add(@, warmup_batch(file.data))]
                  /\ documents' = Append(documents,
                                         [type |-> "warmup", data |-> file.data])
                  /\ load_goes_to("exercises")
                  /\ UNCHANGED load_log
    /\ UNCHANGED <<plans_data_cache, rag_reply>>

\* Variant of load_exercises with a slip: without the exercise library the
\* load stops there.
load_exercises_required ==
    /\ load_frame.pc = "exercises"
    /\ LET file == load_frame.data_dir.exercises_library
       IN  CASE file.state = "absent" ->
                  /\ load_returns
                  /\ UNCHANGED <<collections, documents>>
             [] file.state = "malformed" ->
                  /\ load_raises
                  /\ UNCHANGED <<collections, documents>>
             [] file.state = "ok" ->
                  /\ collections' = [collections EXCEPT !.exercises =
                                        collection_add(@, exercise_batch(file.data))]
                  /\ documents' = Append(documents,
                                         [type |-> "exercises",
                                          count |-> Len(file.data)])
                  /\ load_goes_to("plans")
                  /\ UNCHANGED load_log
    /\ UNCHANGED <<plans_data_cache, rag_reply>>

\* load_data, lines 80-120
load_exercises ==
    /\ load_frame.pc = "exercises"
    /\ LET file == load_frame.data_dir.exercises_library
       IN  CASE file.state = "absent" ->
                  /\ load_goes_to("plans")
                  /\ UNCHANGED <<collections, documents, load_log>>
             [] file.state = "malformed" ->
                  /\ load_raises
                  /\ UNCHANGED <<collections, documents>>
             [] file.state = "ok" ->
                  /\ collections' = [collections EXCEPT !.exercises =
                                        collection_add(@, exercise_batch(file.data))]
                  /\ documents' = Append(documents,
                                         [type |-> "exercises",
                                          count |-> Len(file.data)])
                  /\ load_goes_to("plans")
                  /\ UNCHANGED load_log
    /\ UNCHANGED <<plans_data_cache, rag_reply>>

\* load_data, lines 122-134: the plan library is opened and the cache is
\* reset
load_plans_open ==
    /\ load_frame.pc = "plans"
    /\ LET file == load_frame.data_dir.workout_plans_full
       IN  CASE file.state = "absent" ->
                  /\ load_returns
                  /\ UNCHANGED plans_data_cache
             [] file.state = "malformed" ->
                  /\ load_raises
                  /\ UNCHANGED plans_data_cache
             [] file.state = "ok" ->
                  /\ plans_data_cache' = EmptyDict
                  /\ load_frame' = [load_frame EXCEPT !.pc = "plans_loop",
                                                      !.todo = file.data]
                  /\ UNCHANGED load_log
    /\ UNCHANGED <<collections, documents, rag_reply>>

\* load_data, lines 136-159: one turn of the loop over the plans
load_plan_next ==
    /\ load_frame.pc = "plans_loop"
    /\ load_frame.todo # <<>>
    /\ LET plan_key == Head(load_frame.todo)[1]
           plan == Head(load_frame.todo)[2]
       IN  /\ plans_data_cache' = Put(plans_data_cache, plan_key, plan)
           /\ load_frame' = [load_frame EXCEPT
                  !.todo = Tail(@),
                  !.batch = Append(@, [id |-> plan_key, document |-> plan_text(plan),
                                       metadata |-> plan_metadata(plan_key, plan),
                                       embedding |-> encode(plan_text(plan))])]
    /\ UNCHANGED <<collections, documents, load_log, rag_reply>>

\* load_data, lines 161-171: the plans are added to the store
load_plans_add ==
    /\ load_frame.pc = "plans_loop"
    /\ load_frame.todo = <<>>
    /\ collections' = [collections EXCEPT !.workout_plans =
                          collection_add(@, load_frame.batch)]
    /\ documents' = Append(documents, [type |-> "workout_plans",
                                       count |-> Len(load_frame.batch)])
    /\ load_returns
    /\ UNCHANGED <<plans_data_cache, rag_reply>>

(* ------------------------------ queries -------------------------------- *)

\* age_group.replace('-', '_') on the age groups of age_group_of
replace_dashes(age_group) ==
    CASE age_group = "18-30" -> "18_30"
      [] age_group = "30-45" -> "30_45"
      [] age_group = "45-60" -> "45_60"
      [] OTHER -> age_group

\* data/fitness_rag.py get_workout_plan, line 192
plan_key_of(gender, age_group, week, day) ==
    gender \o "_" \o replace_dashes(age_group) \o "_week" \o ToString(week)
           \o "_day" \o ToString(day)

\* get_workout_plan, lines 203-213: the plan rebuilt from the metadata of
\* the stored record
plan_from_metadata(meta, week, day) ==
    [name |-> <<"Trenirovka", week, day>>, week |-> week, day |-> day,
     target_muscles |-> json_loads(Get(meta, "muscles", json_dumps(<<>>))),
     intensity_level |-> Get(meta, "intensity_level", "medium"),
     exercises |-> <<>>, warmup |-> <<>>, cooldown |-> <<>>]

\* Variant of workout_plan_result with a slip: the store is consulted before
\* the cache.
workout_plan_result_store_first(cache, collection, gender, age_group, week, day) ==
    LET plan_key == plan_key_of(gender, age_group, week, day)
        metadatas == collection_get(collection, plan_key)
    IN  IF metadatas # <<>>
        THEN plan_from_metadata(metadatas[1], week, day)
        ELSE IF plan_key \in DOMAIN cache THEN cache[plan_key] ELSE None

\* get_workout_plan, lines 187-215
workout_plan_result(cache, collection, gender, age_group, week, day) ==
    LET plan_key == plan_key_of(gender, age_group, week, day)
    IN  IF plan_key \in DOMAIN cache
        THEN cache[plan_key]
        ELSE LET metadatas == collection_get(collection, plan_key)
             IN  IF metadatas # <<>>
                 THEN plan_from_metadata(metadatas[1], week, day)
                 ELSE None

\* The queries tried by the model.
QueryGenders == {"male", "female"}

QueryAgeGroups == {"18-30"}

QueryWeeks == {1, 2}

QueryDays == {1, 2}

get_workout_plan(gender, age_group, week, day) ==
    /\ rag_reply' = [op |-> "get_workout_plan", gender |-> gender,
                     age_group |-> age_group, week |-> week, day |-> day,
                     result |-> workout_plan_result(plans_data_cache,
                                                    collections.workout_plans,
                                                    gender, age_group, week, day)]
    /\ UNCHANGED <<collections, plans_data_cache, documents, load_frame, load_log>>

\* chromadb Collection.get(ids=[id]) as a whole: the ids, documents and
\* metadatas found, empty lists when the id is not stored
collection_get_result(collection, id) ==
    IF id \in DOMAIN collection
    THEN [ids |-> <<id>>, documents |-> <<collection[id].document>>,
          metadatas |-> <<collection[id].metadata>>]
    ELSE [ids |-> <<>>, documents |-> <<>>, metadatas |-> <<>>]

\* get_warmup, lines 173-176
get_warmup ==
    /\ rag_reply' = [op |-> "get_warmup", raised |-> "",
                     result |-> collection_get_result(collections.warmup,
                                                      "warmup_001")]
    /\ UNCHANGED <<collections, plans_data_cache, documents, load_frame, load_log>>

(* ------------------------------ chunking ------------------------------- *)

\* A text is the sequence of its characters; position i of the Python string
\* is element i+1 of the sequence.
Alphabet == {"a", ".", " ", "\n"}

Texts == UNION {[1..n -> Alphabet] : n \in 0..MaxTextLen}

\* The chunk_size / overlap pairs tried by the model.
ChunkParams ==
    {[chunk_size |-> 3, overlap |-> 0], [chunk_size |-> 3, overlap |-> 1],
     [chunk_size |-> 3, overlap |-> 2], [chunk_size |-> 2, overlap |-> 1]}

\* str.strip() removes these at both ends.
Whitespace == {" ", "\n"}

\* text[i] is defined for -len <= i < len; a negative i counts from the end.
index_ok(text, i) == (0 - Len(text)) <= i /\ i < Len(text)

py_char(text, i) == IF i >= 0 THEN text[i + 1] ELSE text[Len(text) + i + 1]

\* text[start:end]: a negative bound counts from the end, both are clamped.
py_bound(text, i) ==
    IF i < 0
    THEN (IF Len(text) + i < 0 THEN 0 ELSE Len(text) + i)
    ELSE (IF i > Len(text) THEN Len(text) ELSE i)

py_slice(text, from, end) ==
    SubSeq(text, py_bound(text, from) + 1, py_bound(text, end))

RECURSIVE lstrip(_)
lstrip(text) ==
    IF text # <<>> /\ Head(text) \in Whitespace THEN lstrip(Tail(text)) ELSE text

RECURSIVE rstrip(_)
rstrip(text) ==
    IF text # <<>> /\ text[Len(text)] \in Whitespace
    THEN rstrip(SubSeq(text, 1, Len(text) - 1))
    ELSE text

\* strip that keeps the text as it is
strip_nothing(text) == text

strip(text) == rstrip(lstrip(text))

\* handlers/document_upload.py chunk_text, lines 95-96:
\* while end > start and text[end] not in ".\n": end -= 1
RECURSIVE scan_back(_, _, _)
scan_back(text, from, end) ==
    IF end > from
    THEN IF ~index_ok(text, end) THEN [end |-> end, raised |-> TRUE]
         ELSE IF py_char(text, end) \notin {".", "\n"}
              THEN scan_back(text, from, end - 1)
              ELSE [end |-> end, raised |-> FALSE]
    ELSE [end |-> end, raised |-> FALSE]

\* chunk_text, lines 101-102:
\* while end < len(text) and text[end] not in " \n": end += 1
RECURSIVE scan_forward(_, _)
scan_forward(text, end) ==
    IF end < Len(text)
    THEN IF ~index_ok(text, end) THEN [end |-> end, raised |-> TRUE]
         ELSE IF py_char(text, end) \notin {" ", "\n"}
              THEN scan_forward(text, end + 1)
              ELSE [end |-> end, raised |-> FALSE]
    ELSE [end |-> end, raised |-> FALSE]

\* chunk_text, lines 90-102: where the chunk that begins at start ends
chunk_end(text, chunk_size, from) ==
    IF from + chunk_size < Len(text)
    THEN LET back == scan_back(text, from, from + chunk_size)
         IN  IF ~back.raised /\ back.end = from
             THEN scan_forward(text, from + chunk_size)
             ELSE back
    ELSE [end |-> from + chunk_size, raised |-> FALSE]

\* next start that steps over the character the chunk ended at
next_start_after(end, overlap) == end + 1 - overlap

\* chunk_text, line 108
next_start(end, overlap) == end - overlap

\* chunk_text, lines 86-87: entry of a call
chunk_text(text, chunk_size, overlap) ==
    /\ chunk_call.pc = "idle"
    /\ chunk_call' = [pc |-> "loop", text |-> text, chunk_size |-> chunk_size,
                      overlap |-> overlap, start |-> 0, chunks |-> <<>>]

\* chunk_text, lines 89-112: the test of the while loop and one turn of it.
\* A collected chunk is kept with the start and end it was cut at.
chunk_iteration ==
    /\ chunk_call.pc = "loop"
    /\ Len(chunk_call.chunks) < MaxChunks
    /\ LET text == chunk_call.text
           from == chunk_call.start
       IN  IF from >= Len(text)
           THEN chunk_call' = [chunk_call EXCEPT !.pc = "returned"]
           ELSE LET cut == chunk_end(text, chunk_call.chunk_size, from)
                    chunk == strip(py_slice(text, from, cut.end))
                    new_start == next_start(cut.end, chunk_call.overlap)
                IN  IF cut.raised
                    THEN chunk_call' = [chunk_call EXCEPT !.pc = "raised"]
                    ELSE chunk_call' =
                           [chunk_call EXCEPT
                              !.chunks = IF chunk # <<>>
                                         THEN Append(@, [text |-> chunk,
                                                         start |-> from,
                                                         end |-> cut.end])
                                         ELSE @,
                              !.start = new_start,
                              !.pc = IF new_start >= Len(text)
                                     THEN "returned" ELSE "loop"]

(* --------------------------- ingestion --------------------------------- *)

\* chunk_text, line 74: the defaults prepare_document_for_indexing uses
DEFAULT_CHUNK_SIZE == 1000

DEFAULT_OVERLAP == 100

SUPPORTED_FORMATS == {".pdf", ".txt", ".md"}

\* What open()/read() or the PDF reader does with a file: it raises, or it
\* gives the text.
Unreadable == [state |-> "unreadable"]

Readable(text) == [state |-> "ok", text |-> text]

UploadTexts == {<<>>, <<" ">>, <<"a">>, <<"a", ".", " ", "a">>}

UploadNames == {"notes.txt", "NOTES.TXT", "plan.md", "book.pdf", "tool.exe"}

\* The files saved under temp/ that index_document is called on.
Uploads ==
    {[filename |-> name, content |-> content] :
        name \in UploadNames,
        content \in {Unreadable} \cup {Readable(text) : text \in UploadTexts}}

\* Path(file_path).suffix.lower()
suffix_lower(filename) ==
    CASE filename = "notes.txt" -> ".txt"
      [] filename = "NOTES.TXT" -> ".txt"
      [] filename = "plan.md" -> ".md"
      [] filename = "book.pdf" -> ".pdf"
      [] filename = "tool.exe" -> ".exe"

\* str(Path(file_path).resolve()): the path under the working directory
resolve(filename) == [cwd |-> "temp", name |-> filename]

\* A str value where None is possible too.
Str(text) == [none |-> FALSE, str |-> text]

\* handlers/document_upload.py load_document, lines 16-39: the text, or None
\* for an unsupported extension and for any exception while reading
load_document(file) ==
    IF suffix_lower(file.filename) \notin SUPPORTED_FORMATS THEN None
    ELSE IF file.content.state # "ok" THEN None
    ELSE Str(file.content.text)

\* "if not text" (line 127): None and the empty string
not_text(text) == text.none \/ text.str = <<>>

\* data/fitness_rag.py add_document, line 258: hash(text) is an int, and
\* slicing an int raises TypeError.
hash_prefix(text) == [raised |-> TRUE]

\* add_document, line 258
doc_id(docs, text) ==
    LET h == hash_prefix(text)
    IN  IF h.raised THEN [raised |-> TRUE]
        ELSE [raised |-> FALSE,
              value |-> "doc_" \o ToString(Len(docs)) \o "_" \o h.value]

\* add_document, lines 248-273, on a store and a document list: what they
\* are afterwards and whether the call raised
add_document(text, metadata, encoder_ok, store, docs) ==
    IF ~encoder_ok
    THEN [raised |-> TRUE, error |-> "encoder failed", store |-> store, docs |-> docs]
    ELSE LET id == doc_id(docs, text)
         IN  IF id.raised
             THEN [raised |-> TRUE, error |-> "'int' object is not subscriptable",
                   store |-> store, docs |-> docs]
             ELSE [raised |-> FALSE, error |-> "",
                   store |-> [store EXCEPT !.exercises =
                                collection_add(@, <<[id |-> id.value,
                                                     document |-> text,
                                                     metadata |-> metadata,
                                                     embedding |-> encode(text)]>>)],
                   docs |-> Append(docs, [type |-> "custom", id |-> id.value,
                                          metadata |-> metadata])]

\* index_document, lines 162-170: the loop over the chunks from chunk i on
\* (i counts from 0); it stops at the first add_document that raises
RECURSIVE add_chunks(_, _, _, _, _)
add_chunks(prepared, i, encoder_ok, store, docs) ==
    IF i >= Len(prepared.chunks)
    THEN [raised |-> FALSE, error |-> "", store |-> store, docs |-> docs]
    ELSE LET added == add_document(prepared.chunks[i + 1],
                                   [source |-> prepared.source,
                                    filename |-> prepared.filename,
                                    chunk_id |-> i],
                                   encoder_ok, store, docs)
         IN  IF added.raised THEN added
             ELSE add_chunks(prepared, i + 1, encoder_ok, added.store, added.docs)

index_returns(result) == index_call' = [index_call EXCEPT !.pc = "returned",
                                                           !.result = result]

\* index_document, lines 140-156, with prepare_document_for_indexing,
\* lines 125-130: the document is loaded and handed to chunk_text
index_document(file) ==
    /\ index_call.pc = "idle"
    /\ LET text == load_document(file)
       IN  IF not_text(text)
           THEN /\ index_call' = [pc |-> "returned", file |-> file,
                                  prepared |-> None,
                                  result |-> [success |-> FALSE,
                                              error |-> "load failed"]]
                /\ UNCHANGED chunk_call
           ELSE /\ index_call' = [pc |-> "chunking", file |-> file,
                                  prepared |-> None, result |-> None]
                /\ chunk_text(text.str, DEFAULT_CHUNK_SIZE, DEFAULT_OVERLAP)
    /\ UNCHANGED rag_vars

\* prepare_document_for_indexing, lines 130-137, and index_document, line
\* 159: chunk_text is left, and the FitnessRAGSystem on the persist directory
\* is constructed. chunk_text runs outside the try block of index_document.
index_construct(data_dir) ==
    /\ index_call.pc = "chunking"
    /\ chunk_call.pc \in {"returned", "raised"}
    /\ IF chunk_call.pc = "raised"
       THEN /\ index_call' = [index_call EXCEPT !.pc = "raised"]
            /\ UNCHANGED rag_vars
       ELSE /\ index_call' =
                 [index_call EXCEPT
                    !.pc = "constructing",
                    !.prepared =
                       [source |-> resolve(index_call.file.filename),
                        filename |-> index_call.file.filename,
                        chunks |-> [k \in DOMAIN chunk_call.chunks |->
                                       chunk_call.chunks[k].text],
                        total_chunks |-> Len(chunk_call.chunks)]]
            /\ init_instance(data_dir)
    /\ chunk_call' = NoChunkCall

\* Variant of index_add_chunks without the except clause: an exception of
\* the constructor or of add_document leaves index_document.
index_add_chunks_uncaught(encoder_ok) ==
    /\ index_call.pc = "constructing"
    /\ load_frame.pc = "idle"
    /\ IF load_log.outcome = "raised"
       THEN /\ index_call' = [index_call EXCEPT !.pc = "raised"]
            /\ UNCHANGED <<collections, documents>>
       ELSE LET added == add_chunks(index_call.prepared, 0, encoder_ok,
                                    collections, documents)
            IN  /\ collections' = added.store
                /\ documents' = added.docs
                /\ IF added.raised
                   THEN index_call' = [index_call EXCEPT !.pc = "raised"]
                   ELSE index_returns([success |-> TRUE,
                                       filename |-> index_call.prepared.filename,
                                       chunks_indexed |->
                                          index_call.prepared.total_chunks])
    /\ UNCHANGED <<plans_data_cache, load_frame, load_log, rag_reply, chunk_call>>

\* index_document, lines 158-182: once the constructor is through, the
\* chunks are added; any exception of the constructor or of add_document is
\* turned into the failure result.
index_add_chunks(encoder_ok) ==
    /\ index_call.pc = "constructing"
    /\ load_frame.pc = "idle"
    /\ IF load_log.outcome = "raised"
       THEN /\ index_returns([success |-> FALSE, error |-> "constructor raised"])
            /\ UNCHANGED <<collections, documents>>
       ELSE LET added == add_chunks(index_call.prepared, 0, encoder_ok,
                                    collections, documents)
            IN  /\ collections' = added.store
                /\ documents' = added.docs
                /\ IF added.raised
                   THEN index_returns([success |-> FALSE, error |-> added.error])
                   ELSE index_returns([success |-> TRUE,
                                       filename |-> index_call.prepared.filename,
                                       chunks_indexed |->
                                          index_call.prepared.total_chunks])
    /\ UNCHANGED <<plans_data_cache, load_frame, load_log, rag_reply, chunk_call>>

(* ------------------------- specification ------------------------------- *)

\* The programme events: start/restart of profile collection, profile input,
\* workout request, completion, reset.
Next ==
    /\ \E user_id \in senders :
        \/ poehali_callback(user_id)
        \/ \E profile_data \in ProfileInputs : handle_profile_input(user_id, profile_data)
        \/ handle_get_workout(user_id)
        \/ handle_workout_complete(user_id)
        \/ reset_command(user_id)
    /\ UNCHANGED tasks
    /\ UNCHANGED rag_vars
    /\ UNCHANGED doc_vars

Spec == Init /\ [][Next]_vars

\* The programme events together with the commands that only touch the
\* reply mode (/start, /mode).
NextModes ==
    /\ \E user_id \in senders :
        \/ poehali_callback(user_id)
        \/ \E profile_data \in ProfileInputs : handle_profile_input(user_id, profile_data)
        \/ handle_get_workout(user_id)
        \/ handle_workout_complete(user_id)
        \/ reset_command(user_id)
        \/ start(user_id)
        \/ \E new_mode \in ModeArgs : mode_command(user_id, new_mode)
    /\ UNCHANGED tasks
    /\ UNCHANGED rag_vars
    /\ UNCHANGED doc_vars

SpecModes == Init /\ [][NextModes]_vars

\* The profile messages tried in the runs with two users: a partial one and
\* one that gives every field.
TwoUserInputs ==
    { [age |-> 25, gender |-> "male", height |-> 180],
      [age |-> 50, gender |-> "female", height |-> 165, weight |-> 60,
       activity_level |-> 2, goal |-> "fit", limitations |-> "none"] }

\* The user has collected fewer than MaxDaysTwoUsers completion records.
few_completions(user_id) ==
    IF user_id \in DOMAIN user_data
    THEN Len(Get(user_data[user_id], "workouts_completed", <<>>)) < MaxDaysTwoUsers
    ELSE TRUE

\* The programme events of two users in any interleaving: the updates are
\* handled one at a time, each by the handler of its sender.
NextTwoUsers ==
    \/ UNCHANGED <<tasks, rag_vars, doc_vars>> /\ \E user_id \in senders : poehali_callback(user_id)
    \/ UNCHANGED <<tasks, rag_vars, doc_vars>> /\ \E user_id \in senders, profile_data \in TwoUserInputs :
                                                  handle_profile_input(user_id, profile_data)
    \/ UNCHANGED <<tasks, rag_vars, doc_vars>> /\ \E user_id \in senders : handle_get_workout(user_id)
    \/ UNCHANGED <<tasks, rag_vars, doc_vars>> /\ \E user_id \in senders :
                                                  few_completions(user_id) /\ handle_workout_complete(user_id)
    \/ UNCHANGED <<tasks, rag_vars, doc_vars>> /\ \E user_id \in senders : reset_command(user_id)

SpecTwoUsers == InitTwoUsers /\ [][NextTwoUsers]_vars

\* The programme events, handled one after the other, and pairs of
\* completion updates of one user handled concurrently.
NextConcurrent ==
    \/ tasks = <<>> /\ Next
    \/ UNCHANGED <<rag_vars, doc_vars>> /\ \E user_id \in senders : dispatch_completions(user_id)
    \/ UNCHANGED <<rag_vars, doc_vars>> /\ \E t \in 1..2 : complete_until_reply(t)
    \/ UNCHANGED <<rag_vars, doc_vars>> /\ \E t \in 1..2 : complete_reply(t)
    \/ UNCHANGED <<rag_vars, doc_vars>> /\ tasks_finished

SpecConcurrent == Init /\ [][NextConcurrent]_vars

\* The queries of the RAG system.
AnyQuery ==
    \E gender \in QueryGenders, age_group \in QueryAgeGroups,
       week \in QueryWeeks, day \in QueryDays :
        get_workout_plan(gender, age_group, week, day)

\* The RAG system as the bot runs it: load_data does not await, so no query
\* runs while a load is in progress.
NextRag ==
    \/ UNCHANGED <<bot_vars, doc_vars>> /\ \E data_dir \in DataDirs : load_data(data_dir)
    \/ UNCHANGED <<bot_vars, doc_vars>> /\ \E data_dir \in DataDirs : init_instance(data_dir)
    \/ UNCHANGED <<bot_vars, doc_vars>> /\ load_warmup
    \/ UNCHANGED <<bot_vars, doc_vars>> /\ load_exercises
    \/ UNCHANGED <<bot_vars, doc_vars>> /\ load_plans_open
    \/ UNCHANGED <<bot_vars, doc_vars>> /\ load_plan_next
    \/ UNCHANGED <<bot_vars, doc_vars>> /\ load_plans_add
    \/ UNCHANGED <<bot_vars, doc_vars>> /\ load_frame.pc = "idle" /\ AnyQuery
    \/ UNCHANGED <<bot_vars, doc_vars>> /\ load_frame.pc = "idle" /\ get_warmup

SpecRag == Init /\ [][NextRag]_vars

\* The RAG system with a reader that runs concurrently with load_data.
NextReindex ==
    \/ UNCHANGED <<bot_vars, doc_vars>> /\ \E data_dir \in DataDirs : load_data(data_dir)
    \/ UNCHANGED <<bot_vars, doc_vars>> /\ \E data_dir \in DataDirs : init_instance(data_dir)
    \/ UNCHANGED <<bot_vars, doc_vars>> /\ load_warmup
    \/ UNCHANGED <<bot_vars, doc_vars>> /\ load_exercises
    \/ UNCHANGED <<bot_vars, doc_vars>> /\ load_plans_open
    \/ UNCHANGED <<bot_vars, doc_vars>> /\ load_plan_next
    \/ UNCHANGED <<bot_vars, doc_vars>> /\ load_plans_add
    \/ UNCHANGED <<bot_vars, doc_vars>> /\ AnyQuery
    \/ UNCHANGED <<bot_vars, doc_vars>> /\ get_warmup

SpecReindex == Init /\ [][NextReindex]_vars

\* One chunk_text call on any text of the model.
NextChunk ==
    \/ UNCHANGED <<bot_vars, rag_vars, index_call>> /\ \E text \in Texts, params \in ChunkParams :
                                              chunk_text(text, params.chunk_size,
                                                         params.overlap)
    \/ UNCHANGED <<bot_vars, rag_vars, index_call>> /\ chunk_iteration

SpecChunk == Init /\ [][NextChunk]_vars

\* One index_document call on any uploaded file; the RAG variables are those
\* of the FitnessRAGSystem the call constructs.
NextIngest ==
    \/ UNCHANGED bot_vars /\ \E file \in Uploads : index_document(file)
    \/ UNCHANGED <<bot_vars, rag_vars, index_call>> /\ index_call.pc = "chunking" /\ chunk_iteration
    \/ UNCHANGED bot_vars /\ \E data_dir \in DataDirs : index_construct(data_dir)
    \/ UNCHANGED <<bot_vars, doc_vars>> /\ index_call.pc = "constructing" /\ load_warmup
    \/ UNCHANGED <<bot_vars, doc_vars>> /\ index_call.pc = "constructing" /\ load_exercises
    \/ UNCHANGED <<bot_vars, doc_vars>> /\ index_call.pc = "constructing" /\ load_plans_open
    \/ UNCHANGED <<bot_vars, doc_vars>> /\ index_call.pc = "constructing" /\ load_plan_next
    \/ UNCHANGED <<bot_vars, doc_vars>> /\ index_call.pc = "constructing" /\ load_plans_add
    \/ UNCHANGED bot_vars /\ \E encoder_ok \in BOOLEAN : index_add_chunks(encoder_ok)

SpecIngest == Init /\ [][NextIngest]_vars

\* chunk_text is a plain loop: a call that can take a step takes it.
SpecChunkFair == Init /\ [][NextChunk]_vars /\ WF_vars(NextChunk)

(* ------------------------------ claims --------------------------------- *)

\* The step just taken was handled by handler h for user u.
StepOf(h, u) == reply'.handler = h /\ reply'.user = u

HasRecord(u) == u \in DOMAIN user_data

\* Some required profile field is absent or empty.
MissingRequired(fields) ==
    \E f \in {"age", "gender", "height", "weight", "activity_level", "goal"} :
        \/ f \notin DOMAIN fields
        \/ (f \in {"age", "height", "weight", "activity_level"} /\ fields[f] = 0)
        \/ (f \in {"gender", "goal"} /\ fields[f] = "")

ActiveProfile(u) == HasRecord(u) /\ Get(user_data[u], "profile_complete", FALSE)

WeekOfDay(d) == ((d - 1) \div 7) + 1

\* C1: a completion event handled at workout_day = d < 28 appends one
\* completion record (for day d), sets workout_day to d+1, clears in_workout
\* and leaves current_week = ((d+1-1)//7)+1, the week growing by one exactly
\* when d is a multiple of 7, whatever in_workout was.
C1_CompletionAdvances ==
    [][\A u \in Users :
         (StepOf("handle_workout_complete", u) /\ HasRecord(u)
             /\ user_data[u]["workout_day"] < 28)
         => LET p == user_data[u]
                q == user_data'[u]
                d == p["workout_day"]
                n == Len(p["workouts_completed"])
            IN  /\ Len(q["workouts_completed"]) = n + 1
                /\ SubSeq(q["workouts_completed"], 1, n) = p["workouts_completed"]
                /\ q["workouts_completed"][n + 1]["day"] = d
                /\ q["workouts_completed"][n + 1]["week"] = p["current_week"]
                /\ q["workout_day"] = d + 1
                /\ q["in_workout"] = FALSE
                /\ q["current_week"] = ((d + 1 - 1) \div 7) + 1
                /\ (q["current_week"] = p["current_week"] + 1) <=> (d % 7 = 0)
                /\ (q["current_week"] = p["current_week"]) <=> (d % 7 # 0)
      ]_vars

\* C1 witness: day 7 of week 1 was requested and then completed; the user is
\* now at day 8, week 2.
C1_Witness ==
    \E u \in DOMAIN user_data :
        /\ reply.handler = "handle_workout_complete" /\ reply.user = u
        /\ reply.msg = "workout_done" /\ reply.day = 7 /\ reply.week = 1
        /\ user_data[u]["profile_complete"]
        /\ user_data[u]["workout_day"] = 8
        /\ user_data[u]["current_week"] = 2
        /\ "last_workout" \in DOMAIN user_data[u]
        /\ user_data[u]["last_workout"].day = 7
        /\ user_data[u]["in_workout"] = FALSE

\* C2: in every reachable state, in memory and on disk, the stored
\* current_week equals ((workout_day-1)//7)+1.
C2_WeekDerivedFromDay ==
    /\ \A u \in DOMAIN user_data :
          user_data[u]["current_week"] = ((user_data[u]["workout_day"] - 1) \div 7) + 1
    /\ \A u \in DOMAIN files :
          files[u]["current_week"] = ((files[u]["workout_day"] - 1) \div 7) + 1

\* C2 witness: a user in the middle of week 3, in memory and on disk.
C2_Witness ==
    \E u \in DOMAIN user_data \cap DOMAIN files :
        /\ user_data[u]["profile_complete"]
        /\ user_data[u]["workout_day"] = 15 /\ user_data[u]["current_week"] = 3
        /\ files[u]["workout_day"] = 15 /\ files[u]["current_week"] = 3

\* A completion event was handled at day 28 since the record was created.
CompletedDay28(p) ==
    \E i \in 1..Len(p["workouts_completed"]) : p["workouts_completed"][i]["day"] = 28

\* C3: a completion event at workout_day = 28 emits the completion message,
\* and from then on every workout request of that user gets the completion
\* message instead of a plan.
C3_Day28Completes ==
    [][\A u \in Users :
         /\ (StepOf("handle_workout_complete", u) /\ HasRecord(u)
                 /\ user_data[u]["workout_day"] = 28)
            => reply'.msg = "completion_message"
         /\ (StepOf("handle_get_workout", u) /\ HasRecord(u)
                 /\ CompletedDay28(user_data[u]))
            => reply'.msg = "completion_message"
      ]_vars

\* C4 (as claimed): workout_day never decreases unless the event is a reset.
C4_DayNeverDecreases ==
    [][\A u \in Users :
         (HasRecord(u) /\ u \in DOMAIN user_data' /\ reply'.handler # "reset_command")
         => user_data'[u]["workout_day"] >= user_data[u]["workout_day"]
      ]_vars

\* C4 (amended): workout_day never decreases unless the event is a reset, a
\* (re)start of profile collection, or the profile input that completes the
\* profile.
C4_DayDecreasesOnlyOnReinit ==
    [][\A u \in Users :
         (HasRecord(u) /\ u \in DOMAIN user_data'
             /\ reply'.handler # "reset_command"
             /\ reply'.handler # "poehali_callback"
             /\ ~(reply'.handler = "handle_profile_input" /\ reply'.msg = "profile_filled"))
         => user_data'[u]["workout_day"] >= user_data[u]["workout_day"]
      ]_vars

\* C4 witness: a completion has just moved an active user past the first
\* week boundary.
C4_Witness ==
    \E u \in DOMAIN user_data :
        /\ reply.handler = "handle_workout_complete" /\ reply.user = u
        /\ reply.msg = "workout_done" /\ reply.day = 9
        /\ user_data[u]["profile_complete"]
        /\ user_data[u]["workout_day"] = 10

\* The last event handled was a completion event of user u.
JustCompleted(u) ==
    /\ reply.handler = "handle_workout_complete" /\ reply.user = u
    /\ reply.msg # "profile_not_filled"

\* C5 (as claimed): a second completion event with no workout request in
\* between leaves workout_day, current_week and workouts_completed as the
\* first one left them.
C5_RepeatedCompleteIdempotent ==
    [][\A u \in Users :
         (JustCompleted(u) /\ HasRecord(u) /\ StepOf("handle_workout_complete", u))
         => /\ user_data'[u]["workout_day"] = user_data[u]["workout_day"]
            /\ user_data'[u]["current_week"] = user_data[u]["current_week"]
            /\ user_data'[u]["workouts_completed"] = user_data[u]["workouts_completed"]
      ]_vars

\* C5 (amended): a second completion event with no workout request in
\* between is handled like the first: it appends another record and, while
\* workout_day < 28, advances the day once more.
C5_RepeatedCompleteAdvances ==
    [][\A u \in Users :
         (JustCompleted(u) /\ HasRecord(u) /\ StepOf("handle_workout_complete", u))
         => LET p == user_data[u]
                q == user_data'[u]
            IN  /\ Len(q["workouts_completed"]) = Len(p["workouts_completed"]) + 1
                /\ q["workout_day"] =
                      IF p["workout_day"] < 28 THEN p["workout_day"] + 1 ELSE 28
                /\ q["current_week"] = WeekOfDay(q["workout_day"])
      ]_vars

\* C5 witness: days 1 and 2 were completed one after the other by a user
\* who never requested a workout.
C5_Witness ==
    \E u \in DOMAIN user_data :
        /\ JustCompleted(u) /\ reply.msg = "workout_done" /\ reply.day = 2
        /\ user_data[u]["profile_complete"]
        /\ "last_workout" \notin DOMAIN user_data[u]
        /\ Len(user_data[u]["workouts_completed"]) = 2
        /\ user_data[u]["workout_day"] = 3

\* C6: between creation of the programme and its reset, the length of
\* workouts_completed, in memory and in the persisted record, equals the
\* number of completion events handled since creation.
C6_HistoryCountsEvents ==
    \A u \in DOMAIN user_data :
        user_data[u]["profile_complete"]
        => /\ Len(user_data[u]["workouts_completed"]) = completion_events[u]
           /\ u \in DOMAIN files
           /\ Len(files[u]["workouts_completed"]) = completion_events[u]

\* C7: a workout request or completion event of a user without an active
\* profile (no record, or profile still being collected) only yields the
\* guidance message and changes nothing.
C7_NoProfileOnlyGuidance ==
    [][\A u \in Users :
         ((StepOf("handle_get_workout", u) \/ StepOf("handle_workout_complete", u))
             /\ ~ActiveProfile(u))
         => /\ reply'.msg = "profile_not_filled"
            /\ user_data' = user_data
            /\ files' = files
      ]_vars

\* C8: reset removes the in-memory and the persisted record of the user
\* (touching nobody else's), is a no-op for a user without any state, gives
\* the same state when applied again, and a workout request or completion
\* event of a user without a record reports that the profile is not set up.
C8_ResetClears ==
    [][\A u \in Users :
         /\ StepOf("reset_command", u)
            => /\ u \notin DOMAIN user_data'
               /\ u \notin DOMAIN files'
               /\ \A v \in Users \ {u} :
                     /\ (v \in DOMAIN user_data') = (v \in DOMAIN user_data)
                     /\ (v \in DOMAIN files') = (v \in DOMAIN files)
                     /\ v \in DOMAIN user_data => user_data'[v] = user_data[v]
                     /\ v \in DOMAIN files => files'[v] = files[v]
               /\ (u \notin DOMAIN user_data /\ u \notin DOMAIN files)
                     => (user_data' = user_data /\ files' = files)
               /\ (u \notin DOMAIN user_data /\ u \notin DOMAIN files
                      /\ u \notin DOMAIN user_modes)
                     => user_modes' = user_modes
               /\ reply'.msg = "cleared"
               /\ remove_file(files', u) = files'
               /\ forget_user(user_data', u) = user_data'
               /\ reset_mode(user_modes', u) = user_modes'
         /\ ((StepOf("handle_get_workout", u) \/ StepOf("handle_workout_complete", u))
                 /\ ~HasRecord(u))
            => /\ reply'.msg = "profile_not_filled"
               /\ user_data' = user_data
               /\ files' = files
      ]_vars

\* C8 witness: a reset has just removed the file and the record of a user.
C8_Witness ==
    \E u \in Users :
        /\ reply.handler = "reset_command" /\ reply.user = u
        /\ reply.file_removed
        /\ u \notin DOMAIN user_data
        /\ u \notin DOMAIN files

\* C9: a user becomes ACTIVE only by a profile input after which all six
\* required fields are present, and then starts at week 1, day 1, not in a
\* workout, with an empty history; while a required field is missing the
\* profile stays incomplete and the state stays "collecting".
C9_ActivationOnlyWhenComplete ==
    /\ [](\A u \in DOMAIN user_data :
            MissingRequired(user_data[u]["fields"])
            => /\ ~user_data[u]["profile_complete"]
               /\ user_data[u]["profile_state"] = "collecting")
    /\ [][\A u \in Users :
            (/\ u \in DOMAIN user_data'
             /\ (user_data'[u]["profile_complete"]
                    \/ user_data'[u]["profile_state"] # "collecting")
             /\ ~ActiveProfile(u))
            => /\ StepOf("handle_profile_input", u)
               /\ ~MissingRequired(user_data'[u]["fields"])
               /\ user_data'[u]["profile_complete"]
               /\ user_data'[u]["profile_state"] = "complete"
               /\ user_data'[u]["current_week"] = 1
               /\ user_data'[u]["workout_day"] = 1
               /\ user_data'[u]["in_workout"] = FALSE
               /\ user_data'[u]["workouts_completed"] = <<>>
         ]_vars

\* C9 witness: the profile has just been completed.
C9_Witness ==
    \E u \in DOMAIN user_data :
        /\ reply.handler = "handle_profile_input" /\ reply.user = u
        /\ reply.msg = "profile_filled"
        /\ user_data[u]["profile_state"] = "complete"
        /\ user_data[u]["workout_day"] = 1

\* C10: a workout request handled at workout_day <= 28 leaves workout_day,
\* current_week and workouts_completed alone, sets in_workout, records
\* last_workout with the current week and day, and hands plan generation the
\* last_workout recorded before the request.
C10_RequestFrame ==
    [][\A u \in Users :
         (StepOf("handle_get_workout", u) /\ HasRecord(u)
             /\ user_data[u]["workout_day"] <= 28)
         => LET p == user_data[u]
                q == user_data'[u]
            IN  /\ q["workout_day"] = p["workout_day"]
                /\ q["current_week"] = p["current_week"]
                /\ q["workouts_completed"] = p["workouts_completed"]
                /\ q["in_workout"] = TRUE
                /\ q["last_workout"].week = p["current_week"]
                /\ q["last_workout"].day = p["workout_day"]
                /\ reply'.msg = "workout"
                /\ reply'.week = p["current_week"]
                /\ reply'.day = p["workout_day"]
                /\ reply'.previous_workout =
                      (IF "last_workout" \in DOMAIN p THEN p["last_workout"]
                       ELSE [k \in {} |-> 0])
      ]_vars

\* C10 witness: the plan of day 2 was generated with the plan of day 1 as
\* previous workout.
C10_Witness ==
    \E u \in DOMAIN user_data :
        /\ reply.handler = "handle_get_workout" /\ reply.user = u
        /\ reply.msg = "workout" /\ reply.day = 2
        /\ user_data[u]["profile_complete"]
        /\ DOMAIN reply.previous_workout # {}
        /\ reply.previous_workout.day = 1
        /\ user_data[u]["in_workout"] = TRUE
        /\ user_data[u]["last_workout"].day = 2

\* Week/day pairs of the completion records of a user record.
CompletedPairs(p) ==
    {<<p["workouts_completed"][i]["week"], p["workouts_completed"][i]["day"]>> :
        i \in 1..Len(p["workouts_completed"])}

\* C11 as stated: in every reachable state in which a user record exists,
\* 1 <= workout_day <= 28 and 1 <= current_week <= 4, and every week/day
\* pair passed to plan generation or written into a completion record lies
\* in those ranges.
C11_DayWeekInRange ==
    /\ \A u \in DOMAIN user_data :
          /\ user_data[u]["workout_day"] \in 1..28
          /\ user_data[u]["current_week"] \in 1..4
          /\ CompletedPairs(user_data[u]) \subseteq (1..4) \X (1..28)
    /\ \A u \in DOMAIN files :
          CompletedPairs(files[u]) \subseteq (1..4) \X (1..28)
    /\ reply.msg = "workout" => (reply.week \in 1..4 /\ reply.day \in 1..28)

\* C11 amended: in every reachable state in which a user record exists,
\* 0 <= workout_day <= 28 and 0 <= current_week <= 4, the value 0 occurring
\* only while the profile is not complete; every week/day pair passed to
\* plan generation or written into a completion record lies in 0..4 x 0..28,
\* and in 1..4 x 1..28 when the user's profile is complete.
C11_DayWeekBounded ==
    /\ \A u \in DOMAIN user_data :
          LET p == user_data[u]
          IN  /\ p["workout_day"] \in 0..28
              /\ p["current_week"] \in 0..4
              /\ CompletedPairs(p) \subseteq (0..4) \X (0..28)
              /\ p["profile_complete"] =>
                    /\ p["workout_day"] \in 1..28
                    /\ p["current_week"] \in 1..4
                    /\ CompletedPairs(p) \subseteq (1..4) \X (1..28)
    /\ \A u \in DOMAIN files :
          /\ files[u]["workout_day"] \in 0..28
          /\ files[u]["current_week"] \in 0..4
          /\ CompletedPairs(files[u]) \subseteq (0..4) \X (0..28)
          /\ files[u]["profile_complete"] =>
                CompletedPairs(files[u]) \subseteq (1..4) \X (1..28)
    /\ reply.msg = "workout" =>
          /\ reply.week \in 0..4 /\ reply.day \in 0..28
          /\ ActiveProfile(reply.user) => (reply.week \in 1..4 /\ reply.day \in 1..28)

\* C11 witness: a user with a complete profile has completed days 1..27 and
\* was issued the plan of week 4, day 28.
C11_Witness ==
    \E u \in DOMAIN user_data :
        /\ user_data[u]["profile_complete"]
        /\ reply.user = u /\ reply.msg = "workout"
        /\ reply.week = 4 /\ reply.day = 28
        /\ Len(user_data[u]["workouts_completed"]) = 27
        /\ user_data[u]["workouts_completed"][27]["day"] = 27

\* Both concurrently dispatched completion handlers have finished.
BothFinished ==
    tasks # <<>> /\ \A t \in DOMAIN tasks : tasks[t].pc = "finished"

\* C12: two completion events issued concurrently by the same user while
\* workout_day = d <= 26 are both applied: after both handlers finish,
\* workout_day = d+2 and workouts_completed grew by exactly two records, one
\* for day d and one for day d+1, in memory and in the persisted record.
C12_ConcurrentCompletionsBothApplied ==
    (BothFinished /\ tasks[1].day_at_dispatch <= 26) =>
        LET u == tasks[1].user
            d == tasks[1].day_at_dispatch
            n == tasks[1].len_at_dispatch
        IN  /\ u \in DOMAIN user_data
            /\ user_data[u]["workout_day"] = d + 2
            /\ Len(user_data[u]["workouts_completed"]) = n + 2
            /\ user_data[u]["workouts_completed"][n + 1]["day"] = d
            /\ user_data[u]["workouts_completed"][n + 2]["day"] = d + 1
            /\ u \in DOMAIN files
            /\ files[u]["workout_day"] = d + 2
            /\ files[u]["workouts_completed"] = user_data[u]["workouts_completed"]

\* C12 witness: two completions dispatched together at day 7 have both
\* finished, the coroutine that ran second having replied first; the user is
\* at day 9.
C12_Witness ==
    /\ BothFinished
    /\ tasks[1].day_at_dispatch = 7
    /\ tasks[1].day = 8 /\ tasks[2].day = 7
    /\ reply.msg = "workout_done" /\ reply.day = 7
    /\ user_data[tasks[1].user]["profile_complete"]
    /\ user_data[tasks[1].user]["workout_day"] = 9
    /\ user_data[tasks[1].user]["current_week"] = 2

\* The step just taken was a get_workout_plan call that returned a plan.
PlanReturned ==
    /\ rag_reply' # rag_reply
    /\ rag_reply'.op = "get_workout_plan"
    /\ rag_reply'.result # None

\* The last load_data call ran to its end and read a plan library.
LoadedPlanLibrary ==
    /\ load_log.outcome = "loaded"
    /\ load_log.data_dir.workout_plans_full.state = "ok"

\* C13: after a load of any plan library, for every (gender, age_group,
\* week, day) for which get_workout_plan returns a plan, the returned plan's
\* own week, day and category equal the queried values; the call repeated
\* returns the same result, and the call changes neither the Plan Cache nor
\* the Document Store.
C13_ReturnedPlanMatchesQuery ==
    [][(PlanReturned /\ LoadedPlanLibrary) =>
          LET q == rag_reply'
              plan == rag_reply'.result
          IN  /\ plan.week = q.week
              /\ plan.day = q.day
              /\ "category" \in DOMAIN plan
              /\ plan.category = [gender |-> q.gender, age_group |-> q.age_group]
              /\ workout_plan_result(plans_data_cache', collections'.workout_plans,
                                     q.gender, q.age_group, q.week, q.day) = plan
              /\ plans_data_cache' = plans_data_cache
              /\ collections' = collections
      ]_vars

\* The canonical key of a query, written out.
CanonicalKey(q) ==
    q.gender \o "_" \o (IF q.age_group = "18-30" THEN "18_30" ELSE q.age_group)
             \o "_week" \o ToString(q.week) \o "_day" \o ToString(q.day)

LoadedLibrary == load_log.data_dir.workout_plans_full.data

\* C15: after load, for every plan key K present in the source data, the
\* Plan Cache entry for K holds the plan's full exercise list, and the
\* workout_plans collection holds a record with id K whose metadata carries
\* week, day, category, muscles and intensity but no exercise list.
C15_CacheFullStoreCondensed ==
    LoadedPlanLibrary =>
        \A i \in DOMAIN LoadedLibrary :
            LET key == LoadedLibrary[i][1]
                plan == LoadedLibrary[i][2]
                store == collections.workout_plans
            IN  /\ key \in DOMAIN plans_data_cache
                /\ plans_data_cache[key].exercises = plan.exercises
                /\ plans_data_cache[key].exercises # <<>>
                /\ key \in DOMAIN store
                /\ {"week", "day", "gender", "age_group", "muscles", "intensity_level"}
                       \subseteq DOMAIN store[key].metadata
                /\ store[key].metadata.week = plan.week
                /\ store[key].metadata.day = plan.day
                /\ store[key].metadata.gender = plan.category.gender
                /\ store[key].metadata.age_group = plan.category.age_group
                /\ "exercises" \notin DOMAIN store[key].metadata

\* C15 witness: a load of the two-plan library has ended; both plans are
\* cached with their exercises and stored.
C15_Witness ==
    /\ LoadedPlanLibrary
    /\ LoadedLibrary = PlansC
    /\ DOMAIN plans_data_cache = {"male_18_30_week1_day1", "male_18_30_week1_day2"}
    /\ plans_data_cache["male_18_30_week1_day2"].exercises = <<[name |-> "squat", sets |-> 3]>>
    /\ DOMAIN collections.workout_plans = {"male_18_30_week1_day1", "male_18_30_week1_day2"}

\* The records the source read by the last load_data call gives for a
\* collection: what an overwriting load leaves under each of its ids.
SourceBatch(name) ==
    LET file == IF name = "warmup" THEN load_log.data_dir.warmup_routine
                ELSE IF name = "exercises" THEN load_log.data_dir.exercises_library
                ELSE load_log.data_dir.workout_plans_full
    IN  IF file.state # "ok" THEN <<>>
        ELSE IF name = "warmup" THEN warmup_batch(file.data)
        ELSE IF name = "exercises" THEN exercise_batch(file.data)
        ELSE [i \in DOMAIN file.data |->
                 [id |-> file.data[i][1], document |-> plan_text(file.data[i][2]),
                  metadata |-> plan_metadata(file.data[i][1], file.data[i][2]),
                  embedding |-> encode(plan_text(file.data[i][2]))]]

CollectionNames == {"warmup", "exercises", "workout_plans"}

\* C16: load is idempotent and overwriting: a load whose ids are all in the
\* store already leaves the record count of each collection unchanged, and
\* after any load every id present in that load's source holds that load's
\* text and metadata in the Document Store (a prior record under the same id
\* is overwritten, not kept).
C16_LoadOverwrites ==
    load_log.outcome = "loaded" =>
        \A name \in CollectionNames :
            LET batch == SourceBatch(name)
                ids == {batch[i].id : i \in DOMAIN batch}
            IN  /\ ids \subseteq DOMAIN load_log.collections_before[name] =>
                      Cardinality(DOMAIN collections[name]) =
                          Cardinality(DOMAIN load_log.collections_before[name])
                /\ \A i \in DOMAIN batch :
                      /\ batch[i].id \in DOMAIN collections[name]
                      /\ collections[name][batch[i].id].document = batch[i].document
                      /\ collections[name][batch[i].id].metadata = batch[i].metadata

\* The last load_data call found its data directory and ran to its end.
LoadReturned == load_log.outcome = "loaded"

\* The plan keys in the source read by the last load_data call.
SourceKeys ==
    LET file == load_log.data_dir.workout_plans_full
    IN  IF file.state = "ok" THEN {file.data[i][1] : i \in DOMAIN file.data} ELSE {}

\* C17: after any load pass, including a reload on an instance that was
\* loaded before, the key set of the Plan Cache equals exactly the set of
\* plan keys in the source read by that pass (empty when that pass found no
\* plan library); no other operation ever adds, removes or replaces a cache
\* entry.
C17_CacheKeysAreSourceKeys ==
    /\ [](LoadReturned => DOMAIN plans_data_cache = SourceKeys)
    /\ [][rag_reply' # rag_reply => plans_data_cache' = plans_data_cache]_vars

\* A reload of the running instance is in progress.
ReloadInProgress == load_log.outcome = "running" /\ load_log.reload

\* C18: while a corpus reload is in progress, a concurrent get_workout_plan
\* for a key present in both the old and the new corpus always gets a
\* full-fidelity plan from the Plan Cache: the new cache is built aside and
\* swapped in atomically, so no reader observes an emptied or partly refilled
\* cache.
C18_ReloadSwapsCacheAtomically ==
    /\ [](ReloadInProgress =>
            ((DOMAIN load_log.cache_before) \cap SourceKeys)
                \subseteq DOMAIN plans_data_cache)
    /\ [][(ReloadInProgress /\ rag_reply' # rag_reply
             /\ rag_reply'.op = "get_workout_plan"
             /\ CanonicalKey(rag_reply') \in (DOMAIN load_log.cache_before) \cap SourceKeys)
          => /\ CanonicalKey(rag_reply') \in DOMAIN plans_data_cache
             /\ rag_reply'.result = plans_data_cache[CanonicalKey(rag_reply')]
             /\ rag_reply'.result.exercises # <<>>
      ]_vars

\* The file of the directory read by the last load_data call that feeds a
\* collection.
SourceFile(name) ==
    IF name = "warmup" THEN load_log.data_dir.warmup_routine
    ELSE IF name = "exercises" THEN load_log.data_dir.exercises_library
    ELSE load_log.data_dir.workout_plans_full

\* C19: each of the three corpus sources is independently optional in load:
\* for every subset of the three files that is absent from an existing data
\* directory, load skips exactly the absent ones and loads every present one
\* into its collection (and the plan library into the Plan Cache).
C19_SourcesIndependentlyOptional ==
    LoadReturned =>
        /\ \A name \in CollectionNames :
              LET batch == SourceBatch(name)
                  before == load_log.collections_before[name]
              IN  IF SourceFile(name).state = "absent"
                  THEN /\ collections[name] = before
                       /\ \A i \in DOMAIN documents : documents[i].type # name
                  ELSE /\ DOMAIN collections[name] =
                              (DOMAIN before) \cup {batch[i].id : i \in DOMAIN batch}
                       /\ batch # <<>>
                       /\ \A i \in DOMAIN batch :
                              batch[i].id \notin DOMAIN before =>
                                  /\ collections[name][batch[i].id].document
                                         = batch[i].document
                                  /\ collections[name][batch[i].id].metadata
                                         = batch[i].metadata
                       /\ \E i \in DOMAIN documents : documents[i].type = name
        /\ SourceFile("workout_plans").state # "absent" =>
              /\ DOMAIN plans_data_cache = SourceKeys
              /\ \A i \in DOMAIN LoadedLibrary :
                     plans_data_cache[LoadedLibrary[i][1]] = LoadedLibrary[i][2]

\* C19 witness: a first load of a directory that has only the plan library
\* has ended: the warmup and exercises collections are empty, the plan is
\* stored and cached.
C19_Witness ==
    /\ LoadReturned
    /\ load_log.data_dir = DataDir(Absent, Absent, File(PlansA))
    /\ collections.warmup = EmptyDict
    /\ collections.exercises = EmptyDict
    /\ DOMAIN collections.workout_plans = {"male_18_30_week1_day1"}
    /\ DOMAIN plans_data_cache = {"male_18_30_week1_day1"}
    /\ Len(documents) = 1

\* The last load_data call has ended, by returning or by raising.
LoadEnded == load_log.outcome \in {"loaded", "raised"}

\* C20: a load-time error in one corpus source (file present but unreadable
\* or malformed) is caught and that source is skipped: load does not raise,
\* and every later source is still loaded.
C20_LoadErrorSkipsOneSource ==
    /\ load_log.outcome # "raised"
    /\ LoadEnded =>
          \A name \in CollectionNames :
              SourceFile(name).state = "ok" =>
                  /\ \A i \in DOMAIN SourceBatch(name) :
                         SourceBatch(name)[i].id \in DOMAIN collections[name]
                  /\ name = "workout_plans" => SourceKeys \subseteq DOMAIN plans_data_cache

\* C21: chunk(text, chunk_size, overlap) terminates for every text: every
\* loop iteration moves start strictly forward, so the loop reaches
\* start >= len(text) after finitely many iterations, including for texts
\* whose nearest '.' or newline before start+chunk_size lies within overlap
\* characters of start.
C21_ChunkTerminates ==
    /\ [][(chunk_call.pc = "loop" /\ chunk_call'.start # chunk_call.start)
             => chunk_call'.start > chunk_call.start]_vars
    /\ [][(chunk_call.pc = "loop" /\ chunk_call.start < Len(chunk_call.text))
             => chunk_call'.start # chunk_call.start]_vars
    /\ (chunk_call.pc = "loop") ~> (chunk_call.pc = "returned")

\* The call has returned its list of chunks.
ChunksReturned == chunk_call.pc = "returned"

\* Position i (from 0) of the text holds a character strip() keeps.
NonWhitespaceAt(text, i) == text[i + 1] \notin Whitespace

\* Chunk c is the text from the first to the last non-whitespace character
\* of text[c.start : c.end].
IsTrimmedSliceOf(c, text) ==
    \E lead \in 0..Len(text) :
       /\ c.start >= 0
       /\ c.start + lead + Len(c.text) <= Len(text)
       /\ c.start + lead + Len(c.text) <= c.end
       /\ \A i \in c.start..(c.start + lead - 1) : ~NonWhitespaceAt(text, i)
       /\ \A i \in (c.start + lead + Len(c.text))..(c.end - 1) :
             i < Len(text) => ~NonWhitespaceAt(text, i)
       /\ c.text = SubSeq(text, c.start + lead + 1, c.start + lead + Len(c.text))

\* C22: the chunks a returned call delivers, taken in order, reconstruct the
\* text up to the whitespace trimmed at chunk boundaries: the chunks begin at
\* increasing positions, every non-whitespace position of the text lies in
\* at least one chunk, and every chunk is a contiguous substring of the text
\* that starts at the chunk's start position (after trimmed whitespace).
C22_ChunksReconstructText ==
    ChunksReturned =>
       LET text == chunk_call.text
           chunks == chunk_call.chunks
       IN  /\ \A k \in 1..(Len(chunks) - 1) : chunks[k].start < chunks[k + 1].start
           /\ \A i \in 0..(Len(text) - 1) :
                 NonWhitespaceAt(text, i) =>
                    \E k \in 1..Len(chunks) :
                       chunks[k].start <= i /\ i < chunks[k].end
           /\ \A k \in 1..Len(chunks) : IsTrimmedSliceOf(chunks[k], text)

\* A returned call with overlapping chunks, one of them trimmed.
C22_Witness ==
    /\ ChunksReturned
    /\ chunk_call.overlap > 0
    /\ Len(chunk_call.chunks) >= 2
    /\ \E k \in 1..Len(chunk_call.chunks) :
          LET c == chunk_call.chunks[k]
          IN  Len(c.text) < c.end - c.start /\ c.end <= Len(chunk_call.text)

\* The window [c.start, c.start + chunk_size] of the text holds no '.' and
\* no newline after c.start.
NoBreakInWindow(c) ==
    \A i \in (c.start + 1)..(c.start + chunk_call.chunk_size) :
       i < Len(chunk_call.text) => chunk_call.text[i + 1] \notin {".", "\n"}

\* Chunk c ends at the first space or newline at or after
\* c.start + chunk_size, or at the end of the text.
ExtendedForward(c) ==
    /\ c.end >= c.start + chunk_call.chunk_size
    /\ c.end <= Len(chunk_call.text)
    /\ c.end < Len(chunk_call.text) => chunk_call.text[c.end + 1] \in {" ", "\n"}
    /\ \A i \in (c.start + chunk_call.chunk_size)..(c.end - 1) :
          chunk_call.text[i + 1] \notin {" ", "\n"}

IndexReturned == index_call.pc = "returned"

\* The call got as far as a list of chunks.
Prepared == index_call.prepared # None

\* Neither the constructor of the RAG system nor the encoder failed.
ComponentsWorked ==
    /\ load_log.outcome # "raised"
    /\ index_call.result.success \/ index_call.result.error # "encoder failed"

\* The exercises collection holds a record with the metadata of chunk i.
ChunkStored(i) ==
    \E id \in DOMAIN collections.exercises :
       collections.exercises[id].metadata =
          [source |-> index_call.prepared.source,
           filename |-> index_call.prepared.filename, chunk_id |-> i]

\* C24: ingesting a readable supported file whose text yields n >= 1 chunks
\* returns {success: true, filename, chunks_indexed: n}, and afterwards the
\* exercises collection holds the n new records, each carrying the source
\* path, the filename and its chunk ordinal 0..n-1.
C24_IngestIndexesChunks ==
    (IndexReturned /\ Prepared /\ ComponentsWorked
        /\ index_call.prepared.total_chunks >= 1)
    => /\ index_call.result =
             [success |-> TRUE, filename |-> index_call.file.filename,
              chunks_indexed |-> index_call.prepared.total_chunks]
       /\ \A i \in 0..(index_call.prepared.total_chunks - 1) : ChunkStored(i)

\* The file cannot be ingested: unsupported extension, unreadable or empty
\* content, or a failure of the store while the RAG system is constructed.
CannotIngest ==
    \/ suffix_lower(index_call.file.filename) \notin SUPPORTED_FORMATS
    \/ index_call.file.content.state # "ok"
    \/ index_call.file.content = Readable(<<>>)
    \/ Prepared /\ load_log.outcome = "raised"

\* C25: ingestion never raises past its boundary: for an unsupported
\* extension, unreadable or empty content, and a store or encoder failure
\* while a chunk is added, index_document returns {success: false, error}
\* instead of raising, and it returns success: true only when every chunk
\* was added.
C25_IngestNeverRaises ==
    /\ index_call.pc # "raised"
    /\ IndexReturned =>
          /\ index_call.result.success \/ "error" \in DOMAIN index_call.result
          /\ CannotIngest => ~index_call.result.success
          /\ index_call.result.success =>
                /\ Prepared
                /\ \A i \in 0..(index_call.prepared.total_chunks - 1) : ChunkStored(i)

\* A chunk could not be added because the encoder failed, and the call
\* returned the failure.
C25_Witness ==
    /\ IndexReturned
    /\ Prepared
    /\ index_call.prepared.total_chunks >= 1
    /\ load_log.outcome # "raised"
    /\ index_call.result = [success |-> FALSE, error |-> "encoder failed"]

\* The store holds the warmup record.
WarmupLoaded == "warmup_001" \in DOMAIN collections.warmup

\* C26: get_warmup, when no warmup record was ever loaded, fails with
\* NotFoundError rather than returning a result; when a warmup was loaded it
\* returns the single record stored under the fixed id.
C26_WarmupNotFound ==
    rag_reply.op = "get_warmup" =>
       IF WarmupLoaded
       THEN /\ rag_reply.raised = ""
            /\ rag_reply.result.ids = <<"warmup_001">>
            /\ rag_reply.result.documents = <<collections.warmup["warmup_001"].document>>
       ELSE rag_reply.raised = "NotFoundError"

\* The fields of the programme state.
ProgramFields ==
    {"workout_day", "current_week", "in_workout", "workouts_completed", "last_workout"}

\* The persisted record of u holds the programme state u has in memory.
PersistedEqualsMemory(ud, fs, u) ==
    /\ u \in DOMAIN fs
    /\ \A f \in ProgramFields :
          /\ (f \in DOMAIN ud[u]) = (f \in DOMAIN fs[u])
          /\ f \in DOMAIN ud[u] => fs[u][f] = ud[u][f]

\* C27: after every handled workout request and every handled completion
\* event, completion at day 28 included, the persisted record of the user
\* equals the in-memory programme state (workout_day, current_week,
\* in_workout, workouts_completed, last_workout).
C27_PersistedEqualsMemory ==
    [][\A u \in Users :
         ((StepOf("handle_get_workout", u) \/ StepOf("handle_workout_complete", u))
             /\ reply'.msg # "profile_not_filled")
         => PersistedEqualsMemory(user_data', files', u)
      ]_vars

\* C28: the records of workouts_completed have pairwise distinct day values
\* in increasing order, and the list never holds more than 28 records.
C28_HistoryDaysDistinct ==
    \A u \in DOMAIN user_data :
        "workouts_completed" \in DOMAIN user_data[u]
        => LET history == user_data[u]["workouts_completed"]
           IN  /\ \A i \in 1..(Len(history) - 1) :
                     history[i]["day"] < history[i + 1]["day"]
               /\ Len(history) <= PROGRAM_DAYS

\* Record p is in a workout and its last_workout is the displayed day.
LastWorkoutIsCurrent(p) ==
    Get(p, "in_workout", FALSE)
    => /\ "last_workout" \in DOMAIN p
       /\ p["last_workout"]["week"] = p["current_week"]
       /\ p["last_workout"]["day"] = p["workout_day"]

\* C29: whenever in_workout is true, last_workout exists and its week and
\* day equal current_week and workout_day, in memory and in the persisted
\* record.
C29_InWorkoutHasLastWorkout ==
    /\ \A u \in DOMAIN user_data : LastWorkoutIsCurrent(user_data[u])
    /\ \A u \in DOMAIN files : LastWorkoutIsCurrent(files[u])

\* A workout of day 8 (week 2) is displayed and not yet completed.
C29_Witness ==
    \E u \in DOMAIN user_data :
        /\ Get(user_data[u], "in_workout", FALSE)
        /\ user_data[u]["workout_day"] = 8
        /\ user_data[u]["last_workout"]["day"] = 8
        /\ user_data[u]["last_workout"]["week"] = 2

\* What the program holds about user v: the in-memory record, the persisted
\* record, the reply mode and the number of completion events handled.
StateOf(ud, fs, modes, events, v) ==
    [memory |-> IF v \in DOMAIN ud THEN <<ud[v]>> ELSE <<>>,
     persisted |-> IF v \in DOMAIN fs THEN <<fs[v]>> ELSE <<>>,
     mode |-> IF v \in DOMAIN modes THEN <<modes[v]>> ELSE <<>>,
     events |-> events[v]]

\* C30: in every interleaving of the events of two users, an event of one
\* user leaves the state of the other user as it was, in memory and in the
\* persisted record.
C30_UsersIsolated ==
    [][\A u \in Users : \A v \in Users \ {u} :
          reply'.user = u
          => StateOf(user_data', files', user_modes', completion_events', v)
               = StateOf(user_data, files, user_modes, completion_events, v)
      ]_vars

\* One user completes a workout while the other one is in the middle of
\* hers, a day behind.
C30_Witness ==
    /\ reply.user = "u1" /\ reply.handler = "handle_workout_complete"
    /\ "u1" \in DOMAIN user_data /\ "u2" \in DOMAIN user_data
    /\ user_data["u1"]["profile_complete"] /\ user_data["u2"]["profile_complete"]
    /\ user_data["u1"]["workout_day"] = 2
    /\ user_data["u2"]["workout_day"] = 1
    /\ user_data["u2"]["in_workout"]
    /\ "u2" \in DOMAIN files /\ files["u2"]["workout_day"] = 1

====
